---- MODULE Spec2Model ----
(***************************************************************************)
(* Model of the question-answering glue of LLM_QA_CLI.py (get_answer and   *)
(* its provider client) and of app.py (the Flask routes /ask and /health   *)
(* with their own provider call).  Python and JSON values are tagged       *)
(* records; a string is a sequence of one-character strings.               *)
(***************************************************************************)
EXTENDS Integers, Sequences, FiniteSets, TLC

\* longest question typed by a caller of get_answer
MaxQLen == 2

(***************************************************************************)
(* Python / JSON values                                                    *)
(***************************************************************************)
PyNone == [t |-> "null"]
Str(s) == [t |-> "str", sv |-> s]
Num(n) == [t |-> "num", nv |-> n]
Bool(b) == [t |-> "bool", bv |-> b]
List(l) == [t |-> "list", lv |-> l]
Dict(f) == [t |-> "obj", ov |-> f]
\* str(v) of a value that is not already a str
Repr(v) == [t |-> "repr", rv |-> v]

EmptyStr == Str(<<>>)
EmptyDict == Dict([k \in {} |-> PyNone])
EmptyList == List(<<>>)

IsDict(v) == v.t = "obj"
IsList(v) == v.t = "list"
IsStr(v) == v.t = "str"

\* bool(v)
Truthy(v) ==
  CASE v.t = "null" -> FALSE
    [] v.t = "bool" -> v.bv
    [] v.t = "num" -> v.nv # 0
    [] v.t = "str" -> v.sv # <<>>
    [] v.t = "list" -> v.lv # <<>>
    [] v.t = "obj" -> DOMAIN v.ov # {}
    [] OTHER -> TRUE

\* a or b
PyOr(a, b) == IF Truthy(a) THEN a ELSE b

\* str(v)
PyStr(v) == IF IsStr(v) THEN v ELSE Repr(v)

\* the characters of the three keys the code probes for
KeyChars(k) ==
  CASE k = "message" -> <<"m", "e", "s", "s", "a", "g", "e">>
    [] k = "text" -> <<"t", "e", "x", "t">>
    [] k = "question" -> <<"q", "u", "e", "s", "t", "i", "o", "n">>

\* needle in hay, for two strings
IsSubstring(needle, hay) ==
  \E i \in 0..(Len(hay) - Len(needle)) :
     SubSeq(hay, i + 1, i + Len(needle)) = needle

\* `k in v`: "yes", "no", or "TypeError" when v is not a container
PyIn(k, v) ==
  CASE v.t = "obj" -> IF k \in DOMAIN v.ov THEN "yes" ELSE "no"
    [] v.t = "str" -> IF IsSubstring(KeyChars(k), v.sv) THEN "yes" ELSE "no"
    [] v.t = "list" -> IF \E i \in 1..Len(v.lv) : v.lv[i] = Str(KeyChars(k))
                       THEN "yes" ELSE "no"
    [] OTHER -> "TypeError"

\* d.get(k, default) on a dict d
DictGet(d, k, default) == IF k \in DOMAIN d.ov THEN d.ov[k] ELSE default

(***************************************************************************)
(* Text: characters, str.strip() and simple_preprocess                     *)
(***************************************************************************)
Whitespace == {" ", "\t"}
Punctuation == {"?"}
Chars == Whitespace \cup Punctuation \cup {"a", "A"}

RECURSIVE SeqsUpTo(_)
\* all strings of at most n characters
SeqsUpTo(n) ==
  IF n = 0 THEN {<<>>}
  ELSE LET shorter == SeqsUpTo(n - 1)
       IN  shorter \cup {Append(s, c) : s \in {x \in shorter : Len(x) = n - 1}, c \in Chars}

Questions == SeqsUpTo(MaxQLen)

RECURSIVE LStrip(_)
LStrip(s) == IF s # <<>> /\ Head(s) \in Whitespace THEN LStrip(Tail(s)) ELSE s

RECURSIVE RStrip(_)
RStrip(s) ==
  IF s # <<>> /\ s[Len(s)] \in Whitespace THEN RStrip(SubSeq(s, 1, Len(s) - 1)) ELSE s

\* mutation: the question is tested without being stripped
Strip_Skipped(s) == s

\* s.strip()
Strip(s) == RStrip(LStrip(s))

\* c.lower()
LowerChar(c) == IF c = "A" THEN "a" ELSE c

\* text.lower()
Lower(s) == [i \in 1..Len(s) |-> LowerChar(s[i])]

\* text.translate(str.maketrans("", "", string.punctuation))
RemovePunctuation(s) == SelectSeq(s, LAMBDA c : c \notin Punctuation)

RECURSIVE CollapseWhitespace(_)
\* re.sub(r"\s+", " ", s)
CollapseWhitespace(s) ==
  IF s = <<>> THEN <<>>
  ELSE IF Head(s) \in Whitespace
       THEN <<" ">> \o CollapseWhitespace(LStrip(s))
       ELSE <<Head(s)>> \o CollapseWhitespace(Tail(s))

RECURSIVE SplitOnSpace(_, _)
\* s.split(" "), cur being the token under construction
SplitOnSpace(s, cur) ==
  IF s = <<>> THEN <<cur>>
  ELSE IF Head(s) = " "
       THEN <<cur>> \o SplitOnSpace(Tail(s), <<>>)
       ELSE SplitOnSpace(Tail(s), Append(cur, Head(s)))

\* simple_preprocess(text) -> (cleaned, tokens)
simple_preprocess(text) ==
  LET cleaned == Strip(CollapseWhitespace(RemovePunctuation(Lower(text))))
  IN  [cleaned |-> cleaned,
       tokens |-> IF cleaned # <<>> THEN SplitOnSpace(cleaned, <<>>) ELSE <<>>]

(***************************************************************************)
(* Provider responses                                                      *)
(***************************************************************************)
Absent == [t |-> "absent"]

\* a dict literal; keys mapped to Absent are left out
MkDict(f) == Dict([k \in {x \in DOMAIN f : f[x] # Absent} |-> f[k]])

AnswerChars == <<"4", "2">>
LegacyChars == <<"h", "i">>

Contents == {PyNone, EmptyStr, Str(AnswerChars), Num(0), Num(7)}

Messages ==
  {PyNone, Str(<<"m">>), EmptyDict} \cup {MkDict([content |-> c]) : c \in Contents}

Texts == {PyNone, EmptyStr, Str(LegacyChars), Num(0)}

FirstChoices ==
  {MkDict([message |-> m, text |-> x, index |-> i]) :
      m \in Messages \cup {Absent}, x \in Texts \cup {Absent}, i \in {Absent, Num(0)}}
  \cup {PyNone, Num(0), Num(5), Bool(TRUE), EmptyStr, Str(<<"a", "b">>),
        Str(KeyChars("message")), Str(<<"a">> \o KeyChars("text")),
        EmptyList, List(<<Num(1)>>), List(<<Str(KeyChars("message"))>>),
        List(<<Str(KeyChars("text"))>>)}

ChoicesValues ==
  {List(<<f>>) : f \in FirstChoices}
  \cup {List(<<f, PyNone>>) : f \in {PyNone, MkDict([text |-> Str(LegacyChars)])}}
  \cup {PyNone, EmptyList, EmptyDict, EmptyStr, Num(1), Str(<<"a">>),
        MkDict([message |-> MkDict([content |-> Str(AnswerChars)])])}

\* what a response body can decode to
ProviderJSON ==
  {MkDict([choices |-> c]) : c \in ChoicesValues \cup {Absent}}
  \cup {MkDict([choices |-> List(<<MkDict([message |-> MkDict([content |-> Str(AnswerChars)])])>>),
                id |-> Num(1)]),
        MkDict([error |-> MkDict([message |-> Str(<<"r">>)])]),
        PyNone, EmptyList, Num(3), Str(<<"o", "k">>),
        List(<<MkDict([choices |-> EmptyList])>>)}

\* the text of a body that is the JSON serialisation of v
JsonText(v) == [t |-> "jsontext", jv |-> v]

\* response bodies: JSON documents, the empty body and an HTML page
Bodies == {JsonText(v) : v \in ProviderJSON} \cup {EmptyStr, Str(<<"<", "h", ">">>)}

Statuses == {200, 304, 429, 500}

NotContacted == [kind |-> "none"]

\* what requests.post can come back with
ProviderOutcomes ==
  {[kind |-> "timeout"], [kind |-> "connection"]}
  \cup {[kind |-> "response", status |-> s, body |-> b] : s \in Statuses, b \in Bodies}

(***************************************************************************)
(* requests: Response.raise_for_status, Response.json, exception texts     *)
(***************************************************************************)
Msg(m) == [t |-> "msg", mv |-> m]

\* resp.raise_for_status() raises HTTPError
RaisesForStatus(status) == 400 <= status /\ status < 600

\* resp.json() raises a decode error
JsonFails(body) == body.t # "jsontext"

\* resp.json()
JsonOf(body) == body.jv

\* str(HTTPError) as raise_for_status builds it
HTTPErrorText(status) ==
  ToString(status)
    \o (IF status < 500 THEN " Client Error" ELSE " Server Error")
    \o " for url: /chat/completions"

TimeoutText == "Read timed out. (read timeout=30)"
ConnectionText == "Max retries exceeded with url: /chat/completions"
DecodeText == "Expecting value: line 1 column 1 (char 0)"
MissingKeyText == "GROQ_API_KEY is not set in environment variables."

\* outcome of requests.post(...); resp.raise_for_status(); resp.json()
PostAndDecode(outcome) ==
  CASE outcome.kind = "timeout" -> [exc |-> "Timeout", msg |-> TimeoutText, val |-> PyNone]
    [] outcome.kind = "connection" ->
         [exc |-> "ConnectionError", msg |-> ConnectionText, val |-> PyNone]
    [] outcome.kind = "response" ->
         IF RaisesForStatus(outcome.status)
         THEN [exc |-> "HTTPError", msg |-> HTTPErrorText(outcome.status), val |-> PyNone]
         ELSE IF JsonFails(outcome.body)
              THEN [exc |-> "JSONDecodeError", msg |-> DecodeText, val |-> PyNone]
              ELSE [exc |-> "none", msg |-> "", val |-> JsonOf(outcome.body)]

(***************************************************************************)
(* LLM_QA_CLI.py                                                           *)
(***************************************************************************)
\* mutation: a failed post is sent a second time
_call_groq_chat_raw_Retry(key, outcome) ==
  IF ~Truthy(key)
  THEN [exc |-> "RuntimeError", msg |-> MissingKeyText, val |-> PyNone, posts |-> 0]
  ELSE [exc |-> PostAndDecode(outcome).exc, msg |-> PostAndDecode(outcome).msg,
        val |-> PostAndDecode(outcome).val,
        posts |-> IF PostAndDecode(outcome).exc = "none" THEN 1 ELSE 2]

\* _call_groq_chat_raw: the key check, then one requests.post
\* posts counts the calls of requests.post
_call_groq_chat_raw(key, outcome) ==
  IF ~Truthy(key)
  THEN [exc |-> "RuntimeError", msg |-> MissingKeyText, val |-> PyNone, posts |-> 0]
  ELSE [exc |-> PostAndDecode(outcome).exc, msg |-> PostAndDecode(outcome).msg,
        val |-> PostAndDecode(outcome).val, posts |-> 1]

\* the branch taken on the first choice: first is choices[0] or {}
FirstChoiceText(first) ==
  LET hasMessage == PyIn("message", first)
      hasText == PyIn("text", first)
  IN  IF hasMessage = "TypeError" THEN EmptyStr
      ELSE IF hasMessage = "yes" /\ ~IsDict(first) THEN EmptyStr
      ELSE IF hasMessage = "yes" /\ IsDict(first.ov["message"])
           THEN PyOr(DictGet(first.ov["message"], "content", EmptyStr), EmptyStr)
      ELSE IF hasText = "yes"
           THEN IF IsDict(first)
                THEN PyOr(DictGet(first, "text", EmptyStr), EmptyStr)
                ELSE EmptyStr
      ELSE PyStr(first)

\* the defensive extraction of get_answer; every exception gives ""
ExtractAssistantText(raw) ==
  IF ~IsDict(raw) THEN EmptyStr
  ELSE LET choices == DictGet(raw, "choices", EmptyList)
       IN  IF Truthy(choices) /\ IsList(choices)
           THEN FirstChoiceText(PyOr(choices.lv[1], EmptyDict))
           ELSE EmptyStr

\* mutation: the HTTPError clause reports the failure but keeps ok true
HTTPErrorResult_OkKept(call, outcome) ==
  [ok |-> TRUE, answer |-> EmptyStr,
   raw |-> IF JsonFails(outcome.body) THEN outcome.body ELSE JsonOf(outcome.body),
   error |-> Msg("Provider HTTP error: " \o call.msg)]

\* the except clause for requests.exceptions.HTTPError
HTTPErrorResult(call, outcome) ==
  [ok |-> FALSE, answer |-> EmptyStr,
   raw |-> IF JsonFails(outcome.body) THEN outcome.body ELSE JsonOf(outcome.body),
   error |-> Msg("Provider HTTP error: " \o call.msg)]

\* mutation: the generic clause labels the failure as a provider HTTP error
GenericErrorResult_Mislabelled(call) ==
  [ok |-> FALSE, answer |-> EmptyStr, raw |-> PyNone,
   error |-> Msg("Provider HTTP error: " \o call.msg)]

\* the except clause for Exception
GenericErrorResult(call) ==
  [ok |-> FALSE, answer |-> EmptyStr, raw |-> PyNone, error |-> Msg(call.msg)]

\* get_answer(question): ret is the returned dict, posts the outbound calls made
get_answer(question, key, outcome) ==
  IF question = <<>> \/ Strip(question) = <<>>
  THEN [ret |-> [ok |-> FALSE, answer |-> EmptyStr, raw |-> PyNone,
                 error |-> Msg("Empty question.")],
        posts |-> 0]
  ELSE LET call == _call_groq_chat_raw(key, outcome)
       IN  [ret |-> CASE call.exc = "none" ->
                           [ok |-> TRUE, answer |-> ExtractAssistantText(call.val),
                            raw |-> call.val, error |-> PyNone,
                            preprocessed |-> simple_preprocess(question)]
                      [] call.exc = "HTTPError" -> HTTPErrorResult(call, outcome)
                      [] OTHER -> GenericErrorResult(call),
            posts |-> call.posts]

(***************************************************************************)
(* app.py                                                                  *)
(***************************************************************************)
GROQ_MODEL == "groq-llama3-13b"

\* data.get("choices", [])[0].get("message", {}).get("content", "") inside
\* try/except: every exception gives ""
AppExtract(data) ==
  IF ~IsDict(data) THEN EmptyStr
  ELSE LET choices == DictGet(data, "choices", EmptyList)
       IN  IF ~(IsList(choices) /\ choices.lv # <<>>) THEN EmptyStr
           ELSE LET first == choices.lv[1]
                IN  IF ~IsDict(first) THEN EmptyStr
                    ELSE LET message == DictGet(first, "message", EmptyDict)
                         IN  IF ~IsDict(message) THEN EmptyStr
                             ELSE DictGet(message, "content", EmptyStr)

\* call_groq_chat: one requests.post, no key check
call_groq_chat(outcome) ==
  LET post == PostAndDecode(outcome)
  IN  [exc |-> post.exc, msg |-> post.msg, raw |-> post.val,
       answer |-> IF post.exc = "none" THEN AppExtract(post.val) ELSE EmptyStr]

\* request.get_json(force=True, silent=True)
GetJson(reqBody) == IF reqBody.t = "jsontext" THEN reqBody.jv ELSE PyNone

\* isinstance(e, requests.exceptions.RequestException); the decode error of
\* resp.json() is one only in newer releases of requests
IsRequestException(exc, decodeIsRequestException) ==
  \/ exc \in {"Timeout", "ConnectionError", "HTTPError"}
  \/ exc = "JSONDecodeError" /\ decodeIsRequestException

\* the response Flask gives when the view function raises
Unhandled500 == [status |-> 500, html |-> "Internal Server Error"]

NoResponse == [status |-> 0]

MissingQuestion400 ==
  [status |-> 400,
   json |-> [ok |-> FALSE, error |-> "Missing 'question' in request body."]]

\* the ask view: resp is the HTTP response, posts the outbound calls made
ask(reqBody, outcome, decodeIsRequestException) ==
  LET body == GetJson(reqBody)
      hasQuestion == PyIn("question", body)
  IN  IF ~Truthy(body) THEN [resp |-> MissingQuestion400, posts |-> 0]
      ELSE IF hasQuestion = "TypeError" THEN [resp |-> Unhandled500, posts |-> 0]
      ELSE IF hasQuestion = "no" THEN [resp |-> MissingQuestion400, posts |-> 0]
      ELSE IF ~IsDict(body) THEN [resp |-> Unhandled500, posts |-> 0]
      ELSE LET groq_resp == call_groq_chat(outcome)
           IN  [resp |->
                  IF groq_resp.exc = "none"
                  THEN [status |-> 200,
                        json |-> [ok |-> TRUE, answer |-> groq_resp.answer,
                                  meta |-> [model |-> GROQ_MODEL]]]
                  ELSE IF IsRequestException(groq_resp.exc, decodeIsRequestException)
                       THEN [status |-> 502,
                             json |-> [ok |-> FALSE, error |-> "API request failed",
                                       details |-> groq_resp.msg]]
                       ELSE [status |-> 500,
                             json |-> [ok |-> FALSE, error |-> "Internal server error",
                                       details |-> groq_resp.msg]],
                posts |-> 1]

\* the health view
Healthy200 == [status |-> 200, json |-> [ok |-> TRUE, status |-> "healthy"]]

\* bodies a client can post to /ask
QuestionValues ==
  {EmptyStr, Str(<<" ">>), Str(<<" ", "\t">>), Str(<<"a", "?">>), PyNone, Num(5)}

RequestBodies ==
  {Absent, Str(<<"{">>), EmptyStr}
  \cup {JsonText(MkDict([question |-> q, other |-> o])) :
          q \in QuestionValues \cup {Absent}, o \in {Absent, Num(1)}}
  \cup {JsonText(v) : v \in {PyNone, Num(0), Num(5), Bool(TRUE), Bool(FALSE), EmptyStr,
                             Str(<<"a">>), Str(KeyChars("question")), EmptyList,
                             List(<<Num(1)>>), List(<<Str(KeyChars("question"))>>)}}

(***************************************************************************)
(* State                                                                   *)
(***************************************************************************)
VARIABLES
  program,            \* which script the process runs: "cli" or "app"
  GROQ_API_KEY,       \* os.environ.get("GROQ_API_KEY"), read at import
  decodeIsReqExc,     \* the installed requests makes its decode error a RequestException
  appState,           \* app.py: "importing", "serving" or "crashed"; "absent" in the CLI
  op,                 \* the call being answered: "none", "get_answer", "ask" or "health"
  question,           \* argument of the get_answer call
  reqBody,            \* body of the latest POST /ask
  provider,           \* what the provider did with the outbound call
  posts,              \* calls of requests.post made by the get_answer or ask call
  result,             \* dict returned by get_answer
  http,               \* response to the latest POST /ask
  healthResp          \* response to GET /health

vars == <<program, GROQ_API_KEY, decodeIsReqExc, appState, op, question, reqBody,
          provider, posts, result, http, healthResp>>

NoResult == [none |-> TRUE]

Init ==
  /\ program \in {"cli", "app"}
  /\ GROQ_API_KEY \in {PyNone, EmptyStr, Str(<<"k">>)}
  /\ decodeIsReqExc \in BOOLEAN
  /\ appState = IF program = "app" THEN "importing" ELSE "absent"
  /\ op = "none"
  /\ question = <<>>
  /\ reqBody = Absent
  /\ provider = NotContacted
  /\ posts = 0
  /\ result = NoResult
  /\ http = NoResponse
  /\ healthResp = NoResponse

\* module level of app.py: raises RuntimeError when the key is missing
ImportApp ==
  /\ appState = "importing"
  /\ appState' = IF ~Truthy(GROQ_API_KEY) THEN "crashed" ELSE "serving"
  /\ UNCHANGED <<program, GROQ_API_KEY, decodeIsReqExc, op, question, reqBody,
                 provider, posts, result, http, healthResp>>

\* a caller of LLM_QA_CLI runs get_answer(q)
GetAnswer(q, outcome) ==
  LET r == get_answer(q, GROQ_API_KEY, outcome)
  IN  /\ program = "cli"
      /\ op = "none"
      /\ op' = "get_answer"
      /\ question' = q
      /\ result' = r.ret
      /\ posts' = r.posts
      /\ provider' = IF r.posts = 0 THEN NotContacted ELSE outcome
      /\ UNCHANGED <<program, GROQ_API_KEY, decodeIsReqExc, appState, reqBody, http,
                     healthResp>>

\* a client posts b to /ask
Ask(b, outcome) ==
  LET r == ask(b, outcome, decodeIsReqExc)
  IN  /\ appState = "serving"
      /\ op = "none"
      /\ op' = "ask"
      /\ reqBody' = b
      /\ http' = r.resp
      /\ posts' = r.posts
      /\ provider' = IF r.posts = 0 THEN NotContacted ELSE outcome
      /\ UNCHANGED <<program, GROQ_API_KEY, decodeIsReqExc, appState, question, result,
                     healthResp>>

\* mutation: the health view reports the failure of the latest /ask
Health_TracksAsk ==
  /\ appState = "serving"
  /\ op \in {"none", "ask"}
  /\ op' = "health"
  /\ healthResp' = IF http.status >= 500
                   THEN [status |-> 503, json |-> [ok |-> FALSE, status |-> "degraded"]]
                   ELSE Healthy200
  /\ UNCHANGED <<program, GROQ_API_KEY, decodeIsReqExc, appState, question, reqBody,
                 provider, posts, result, http>>

\* a client gets /health from the running app, possibly right after an /ask
Health ==
  /\ appState = "serving"
  /\ op \in {"none", "ask"}
  /\ op' = "health"
  /\ healthResp' = Healthy200
  /\ UNCHANGED <<program, GROQ_API_KEY, decodeIsReqExc, appState, question, reqBody,
                 provider, posts, result, http>>

\* a client gets /health from a process whose import raised: nothing answers
HealthUnserved ==
  /\ appState = "crashed"
  /\ op = "none"
  /\ op' = "health"
  /\ healthResp' = NoResponse
  /\ UNCHANGED <<program, GROQ_API_KEY, decodeIsReqExc, appState, question, reqBody,
                 provider, posts, result, http>>

\* the call is over: nothing of it is kept
Done ==
  /\ op # "none"
  /\ op' = "none"
  /\ question' = <<>>
  /\ reqBody' = Absent
  /\ provider' = NotContacted
  /\ posts' = 0
  /\ result' = NoResult
  /\ http' = NoResponse
  /\ healthResp' = NoResponse
  /\ UNCHANGED <<program, GROQ_API_KEY, decodeIsReqExc, appState>>

Next ==
  \/ ImportApp
  \/ program = "cli" /\ op = "none"
       /\ \E q \in Questions, o \in ProviderOutcomes : GetAnswer(q, o)
  \/ appState = "serving" /\ op = "none"
       /\ \E b \in RequestBodies, o \in ProviderOutcomes : Ask(b, o)
  \/ Health
  \/ HealthUnserved
  \/ Done

Spec == Init /\ [][Next]_vars

(***************************************************************************)
(* Properties                                                              *)
(***************************************************************************)
\* q is empty or made of whitespace only
IsBlank(q) == \A i \in 1..Len(q) : q[i] \in Whitespace

Is2xx(status) == 200 <= status /\ status < 300

KeyConfigured == GROQ_API_KEY # PyNone /\ GROQ_API_KEY # EmptyStr

\* the question field of a posted body, Absent when the body is not a JSON
\* object carrying one
PostedQuestion(b) ==
  IF b.t = "jsontext" /\ b.jv.t = "obj" /\ "question" \in DOMAIN b.jv.ov
  THEN b.jv.ov["question"]
  ELSE Absent

\* the provider answered 2xx with a body that decodes
ProviderSucceeded ==
  /\ provider.kind = "response"
  /\ Is2xx(provider.status)
  /\ provider.body.t = "jsontext"

\* C1: get_answer always returns a dict carrying ok, answer, raw and error,
\* whatever the provider client did; ok is true exactly when error is None,
\* and ok false implies answer = "".
C1_TaggedResult ==
  op = "get_answer" =>
    /\ {"ok", "answer", "raw", "error"} \subseteq DOMAIN result
    /\ result.ok \in BOOLEAN
    /\ (result.ok <=> result.error = PyNone)
    /\ (~result.ok => result.answer = [t |-> "str", sv |-> <<>>])

\* C1 witness: a provider that answered 429 was turned into a tagged failure
C1_Witness ==
  /\ op = "get_answer"
  /\ provider.kind = "response"
  /\ provider.status = 429
  /\ result.ok = FALSE
  /\ result.error # PyNone

\* C2: a blank question gets exactly the "Empty question." result, and
\* requests.post is not called, with or without an API key.
C2_BlankQuestion ==
  op = "get_answer" /\ IsBlank(question) =>
    /\ result = [ok |-> FALSE, answer |-> [t |-> "str", sv |-> <<>>],
                 raw |-> [t |-> "null"],
                 error |-> [t |-> "msg", mv |-> "Empty question."]]
    /\ posts = 0
    /\ provider = NotContacted

\* C2 witness: a whitespace-only question was refused with a key configured
C2_Witness ==
  /\ op = "get_answer"
  /\ KeyConfigured
  /\ question = <<" ", "\t">>
  /\ result.error = [t |-> "msg", mv |-> "Empty question."]

\* C3: no entry point, get_answer or POST /ask, calls the provider for a
\* question that is blank after trimming.
C3_BlankNeverPosted ==
  /\ op = "get_answer" /\ IsBlank(question) => posts = 0
  /\ op = "ask" /\ PostedQuestion(reqBody).t = "str" /\ IsBlank(PostedQuestion(reqBody).sv)
       => posts = 0

\* the assistant text as the specification words it
SpecAssistantText(raw) ==
  IF raw.t # "obj" THEN [t |-> "str", sv |-> <<>>]
  ELSE IF "choices" \notin DOMAIN raw.ov THEN [t |-> "str", sv |-> <<>>]
  ELSE IF raw.ov["choices"].t # "list" THEN [t |-> "str", sv |-> <<>>]
  ELSE IF raw.ov["choices"].lv = <<>> THEN [t |-> "str", sv |-> <<>>]
  ELSE LET first == raw.ov["choices"].lv[1]
       IN  IF first.t # "obj" THEN [t |-> "str", sv |-> <<>>]
           ELSE IF "message" \in DOMAIN first.ov /\ first.ov["message"].t = "obj"
                THEN LET message == first.ov["message"].ov
                     IN  IF "content" \notin DOMAIN message \/ message["content"] = PyNone
                         THEN [t |-> "str", sv |-> <<>>]
                         ELSE message["content"]
           ELSE IF "text" \in DOMAIN first.ov
                THEN IF first.ov["text"] = PyNone
                     THEN [t |-> "str", sv |-> <<>>]
                     ELSE first.ov["text"]
           ELSE [t |-> "repr", rv |-> first]

\* C4: on a successful call the answer is the assistant text of the
\* specification: "" without a non-empty list of choices, else
\* message.content, else text, else the rendering of the first choice, and ""
\* for a malformed response or first choice; raw is the provider response.
C4_ExtractedText ==
  op = "get_answer" /\ result.ok = TRUE =>
    /\ ProviderSucceeded
    /\ result.raw = provider.body.jv
    /\ result.answer = SpecAssistantText(provider.body.jv)

\* C5: a non-2xx provider status gives ok false, answer "", an error that
\* begins with "Provider HTTP error: " and raw = the error body, parsed when
\* it is JSON and as text otherwise, never None.
C5_ProviderHTTPError ==
  op = "get_answer" /\ provider.kind = "response" /\ ~Is2xx(provider.status) =>
    /\ result.ok = FALSE
    /\ result.answer = [t |-> "str", sv |-> <<>>]
    /\ result.error # PyNone
    /\ \E s \in Statuses : result.error.mv = "Provider HTTP error: " \o HTTPErrorText(s)
    /\ result.raw = IF provider.body.t = "jsontext" THEN provider.body.jv ELSE provider.body
    /\ result.raw # PyNone

\* the message of the failure that is not an HTTP status
C6_FailureText ==
  CASE ~KeyConfigured -> "GROQ_API_KEY is not set in environment variables."
    [] provider.kind = "timeout" -> TimeoutText
    [] provider.kind = "connection" -> ConnectionText
    [] OTHER -> DecodeText

\* C6: a provider client that fails otherwise than on a non-2xx status
\* (no key, timeout, connection failure, undecodable 2xx body) gives ok
\* false, answer "", raw None and the failure's own message, not empty.
C6_OtherFailure ==
  /\ op = "get_answer"
  /\ ~IsBlank(question)
  /\ \/ ~KeyConfigured
     \/ provider.kind \in {"timeout", "connection"}
     \/ provider.kind = "response" /\ Is2xx(provider.status) /\ provider.body.t # "jsontext"
  => /\ result = [ok |-> FALSE, answer |-> [t |-> "str", sv |-> <<>>],
                  raw |-> [t |-> "null"],
                  error |-> [t |-> "msg", mv |-> C6_FailureText]]
     /\ result.error.mv # ""

\* C6 witness: a timed-out call was reported with its message and no raw
C6_Witness ==
  /\ op = "get_answer"
  /\ provider.kind = "timeout"
  /\ result.raw = PyNone
  /\ result.error = [t |-> "msg", mv |-> TimeoutText]

\* the response is a JSON document with ok false and an error text
IsErrorBody(resp) ==
  /\ "json" \in DOMAIN resp
  /\ "error" \in DOMAIN resp.json
  /\ resp.json.ok = FALSE

\* C7: POST /ask answers 400 {ok: false, error} without a provider call when
\* the body carries no question field; otherwise 200 {ok: true, answer,
\* meta: {model}} on provider success, 502 {ok: false, error, details} on a
\* non-2xx status or a network failure, 500 with an error body on any other
\* failure.
C7_AskStatus ==
  op = "ask" =>
    IF PostedQuestion(reqBody) = Absent
    THEN http.status = 400 /\ IsErrorBody(http) /\ posts = 0
    ELSE /\ posts = 1
         /\ IF ProviderSucceeded
            THEN /\ http.status = 200
                 /\ "json" \in DOMAIN http
                 /\ DOMAIN http.json = {"ok", "answer", "meta"}
                 /\ http.json.ok = TRUE
                 /\ http.json.meta = [model |-> "groq-llama3-13b"]
            ELSE IF \/ provider.kind \in {"timeout", "connection"}
                    \/ provider.kind = "response" /\ ~Is2xx(provider.status)
                 THEN /\ http.status = 502
                      /\ IsErrorBody(http)
                      /\ "details" \in DOMAIN http.json
                 ELSE http.status = 500 /\ IsErrorBody(http)

\* C8: every GET /health is answered 200 {"ok": true, "status": "healthy"},
\* also by a server started without an API key.
C8_HealthAlways ==
  op = "health" =>
    healthResp = [status |-> 200, json |-> [ok |-> TRUE, status |-> "healthy"]]

\* C8 as amended: app.py serves only when its import found an API key, and
\* every GET /health it serves is answered 200 {"ok": true, "status":
\* "healthy"}, whatever the latest /ask did; a process started without a key
\* raised at import and answers nothing.
C8_HealthWhenServing ==
  /\ appState = "serving" => KeyConfigured
  /\ appState = "crashed" => ~KeyConfigured
  /\ op = "health" /\ appState = "serving" =>
       healthResp = [status |-> 200, json |-> [ok |-> TRUE, status |-> "healthy"]]
  /\ op = "health" /\ appState = "crashed" => healthResp = [status |-> 0]

\* C8 witness: /health answered healthy right after an /ask that ended in 502
C8_Witness ==
  /\ op = "health"
  /\ http.status = 502
  /\ provider.kind = "timeout"
  /\ healthResp.status = 200

\* a response of one of the shapes the specification names: a mapping whose
\* choices are an empty list or start with a mapping
NamedShape(raw) ==
  /\ raw.t = "obj"
  /\ "choices" \in DOMAIN raw.ov
  /\ raw.ov["choices"].t = "list"
  /\ raw.ov["choices"].lv # <<>> => raw.ov["choices"].lv[1].t = "obj"

\* C9: for a question get_answer accepts and a successful provider call
\* (message shape, legacy text shape, null content, unrecognised shape,
\* empty choices), POST /ask returns the answer get_answer returns for that
\* question and that provider response.
C9_SameAnswer ==
  /\ op = "ask"
  /\ http.status = 200
  /\ PostedQuestion(reqBody).t = "str"
  /\ ~IsBlank(PostedQuestion(reqBody).sv)
  /\ ProviderSucceeded
  /\ NamedShape(provider.body.jv)
  => http.json.answer
       = get_answer(PostedQuestion(reqBody).sv, GROQ_API_KEY, provider).ret.answer

====
